---- MODULE Spec2Model ----
(***************************************************************************)
(* A model of swallowjson.UnmarshalWith (decode.go): decoding of one JSON  *)
(* object into a struct, with the keys that match no field collected in a  *)
(* designated map field ("spillover").  One call is modelled step by step: *)
(* validation of the target, construction of the field lookup, and the     *)
(* walk over the token stream of encoding/json's Decoder.                  *)
(*                                                                         *)
(* The raw input is a sequence of lexemes.  The braces, colons and commas  *)
(* of the top-level object are lexemes of their own; every JSON value      *)
(* (scalar, array or nested object) is one lexeme.                         *)
(***************************************************************************)
EXTENDS Integers, Sequences, FiniteSets, TLC

VARIABLES
    target,         \* the value handed in as `target` (its type description)
    spilloverName,  \* the spilloverName argument
    raw,            \* the raw argument, as a sequence of lexemes
    vals,           \* the current values of the target's fields
    vals0,          \* the values of the target's fields on entry
    pc,             \* position of the call inside UnmarshalWith
    dec,            \* the json.Decoder: scan position and token state
    key,            \* local `key`
    v,              \* local `v`, the value decoded into an interface{}
    ret,            \* the outcome of the call
    stdout,         \* lines written by fmt.Printf
    srcErr,         \* the last error the decoder handed to UnmarshalWith
    route           \* per processed pair: the key and where it was routed

vars == <<target, spilloverName, raw, vals, vals0, pc, dec, key, v, ret,
          stdout, srcErr, route>>

(***************************************************************************)
(* Bounds                                                                  *)
(***************************************************************************)
MaxPairs == 2

(***************************************************************************)
(* JSON values and lexemes                                                 *)
(***************************************************************************)
JV(k, s, n, frac) == [k |-> k, s |-> s, n |-> n, frac |-> frac]
JStr(s)  == JV("string", s, 0, FALSE)
JNum(n)  == JV("number", "", n, FALSE)
JNumHalf(n) == JV("number", "", n, TRUE)      \* the number n.5
JTrue    == JV("bool", "true", 0, FALSE)
JNull    == JV("null", "null", 0, FALSE)
JArr(s)  == JV("array", s, 0, FALSE)
JObj(s)  == JV("object", s, 0, FALSE)

TimeText == "2009-11-10T23:00:00Z"
ArrText  == "[10,20,30]"
ObjText  == "{\"a\":1,\"b\":2}"

Lex(lx, jv) == [lx |-> lx, v |-> jv]
LB    == Lex("{", JNull)
RB    == Lex("}", JNull)
COLON == Lex(":", JNull)
COMMA == Lex(",", JNull)
BAD   == Lex("bad", JNull)        \* a character that starts no JSON value
Val(jv) == Lex("val", jv)

\* the text of a number, and its first digit
RECURSIVE LeadDigit(_)
LeadDigit(n) == IF n < 10 THEN n ELSE LeadDigit(n \div 10)
NumText(jv) == ToString(jv.n) \o (IF jv.frac THEN ".5" ELSE "")
\* the first character of a lexeme, the one a syntax error names
FirstChar(l) ==
    CASE l.lx = "bad" -> "a"
      [] l.lx # "val" -> l.lx
      [] l.v.k = "string" -> "\""
      [] l.v.k = "number" -> ToString(LeadDigit(l.v.n))
      [] l.v.k = "bool"   -> "t"
      [] l.v.k = "null"   -> "n"
      [] l.v.k = "array"  -> "["
      [] l.v.k = "object" -> "{"

(***************************************************************************)
(* Go values.  t is the dynamic type; "invalid" is the zero reflect.Value. *)
(* A map value carries its entries in m and its nil-ness in nil.           *)
(***************************************************************************)
GV(t, s, n, frac, isnil, m) ==
    [t |-> t, s |-> s, n |-> n, frac |-> frac, nil |-> isnil, m |-> m]
StrV(s)    == GV("string", s, 0, FALSE, FALSE, {})
F64(n, fr) == GV("float64", "", n, fr, FALSE, {})
IntV(n)    == GV("int", "", n, FALSE, FALSE, {})
BoolV(s)   == GV("bool", s, 0, FALSE, FALSE, {})
SliceV(s)  == GV("[]interface{}", s, 0, FALSE, FALSE, {})
BytesV(s)  == GV("[]byte", s, 0, FALSE, FALSE, {})
TimeV(s)   == GV("time.Time", s, 0, FALSE, FALSE, {})
MapV(m)    == GV("map", "", 0, FALSE, FALSE, m)
NilMap     == GV("map", "", 0, FALSE, TRUE, {})
NilSlice   == GV("[]byte", "", 0, FALSE, TRUE, {})
Invalid    == GV("invalid", "", 0, FALSE, TRUE, {})

Entry(k, val) == [key |-> k, val |-> val]

\* the entries of the object ObjText, as encoding/json decodes them
ObjEntries(s) ==
    IF s = ObjText THEN {Entry("a", F64(1, FALSE)), Entry("b", F64(2, FALSE))}
    ELSE {}

(***************************************************************************)
(* Errors and outcomes.  origin tells who made the value: this package,    *)
(* encoding/json, io, or the runtime (a panic).  char and context are the  *)
(* offending character and the context of a syntax error, "" elsewhere.    *)
(***************************************************************************)
E(origin, name, msg) ==
    [origin |-> origin, name |-> name, msg |-> msg, char |-> "", context |-> ""]
Pending == E("", "pending", "")      \* the call has not returned
Nil     == E("", "nil", "")          \* a nil error

ErrGivenNonStringKey == E("swallowjson", "ErrGivenNonStringKey",
    "spillover: given object with non-string key")
ErrMalformedJSON == E("swallowjson", "ErrMalformedJSON",
    "spillover: given malformed JSON")
ErrMissingSpilloverField == E("swallowjson", "ErrMissingSpilloverField",
    "spillover: target struct missing specified spillover field")
ErrNotGivenMutable == E("swallowjson", "ErrNotGivenMutable",
    "spillover: not given something which we can assign to")
ErrNotGivenStruct == E("swallowjson", "ErrNotGivenStruct",
    "spillover: not given a struct in the raw stream")
ErrNotStructHolder == E("swallowjson", "ErrNotStructHolder",
    "spillover: holder is not a struct")
ErrSpillNotRightMap == E("swallowjson", "ErrSpillNotRightMap",
    "spillover: target's spillover field is not a map[string]interface{}")
ErrUnsetableSpilloverField == E("swallowjson", "ErrUnsetableSpilloverField",
    "spillover: target struct's spillover field not assignable")

EOF == E("io", "EOF", "EOF")
\* A syntax error at the character c.  Its text joins msg, the quoted
\* character and the context; where the blanks between them stand (and
\* whether one follows the character when the context is empty) differs
\* between the releases of encoding/json, so the parts are kept apart.
SyntaxError(c, context) ==
    [E("encoding/json", "SyntaxError", "invalid character")
        EXCEPT !.char = c, !.context = context]
ColonError == E("encoding/json", "SyntaxError", "expected colon after object key")
NotAtValueError == E("encoding/json", "SyntaxError", "not at beginning of value")
Panic(msg) == E("panic", "runtime", msg)

(***************************************************************************)
(* encoding/json's Decoder, as far as UnmarshalWith drives it.             *)
(* A decoder is [pos, st]: pos lexemes are consumed, st is the token state.*)
(* Every operation answers [tok, err, d]: the token or value, the error    *)
(* (Nil when there is none) and the decoder afterwards.                    *)
(***************************************************************************)
Tok(kind, s) == [kind |-> kind, s |-> s]
NoTok == Tok("none", "")
Delim(c) == Tok("delim", c)

NewDecoder == [pos |-> 0, st |-> "tokenTopValue"]
Ans(tok, err, d) == [tok |-> tok, err |-> err, d |-> d]

AtEnd(r, d) == d.pos >= Len(r)
PeekLex(r, d) == r[d.pos + 1]

\* Decoder.More: there is another element before the closing delimiter.
More(r, d) == ~AtEnd(r, d) /\ PeekLex(r, d).lx # "}"

tokenValueAllowed(st) ==
    st \in {"tokenTopValue", "tokenArrayStart", "tokenArrayValue", "tokenObjectValue"}

\* Decoder.tokenError: the context depends on the token state; the state
\* tokenObjectStart has no context of its own.
tokenError(st, c) ==
    SyntaxError(c,
        CASE st \in {"tokenTopValue", "tokenArrayStart", "tokenArrayValue",
                     "tokenObjectValue"} -> "looking for beginning of value"
          [] st = "tokenObjectKey" -> "looking for beginning of object key string"
          [] st = "tokenObjectColon" -> "after object key"
          [] st = "tokenObjectComma" -> "after object key:value pair"
          [] OTHER -> "")

\* Decoder.tokenValueEnd
tokenValueEnd(st) ==
    CASE st = "tokenObjectValue" -> "tokenObjectComma"
      [] st = "tokenArrayStart" -> "tokenArrayComma"
      [] st = "tokenArrayValue" -> "tokenArrayComma"
      [] OTHER -> st

\* the token Decoder.Token makes of one value lexeme
ValueToken(jv) ==
    CASE jv.k = "string" -> Tok("string", jv.s)
      [] jv.k = "array"  -> Delim("[")
      [] jv.k = "object" -> Delim("{")
      [] jv.k = "number" -> Tok("float64", NumText(jv))
      [] jv.k = "bool"   -> Tok("bool", jv.s)
      [] jv.k = "null"   -> Tok("nil", "")

\* Decoder.Token.  Colons and commas are consumed silently when the state
\* expects them, and the scan goes on.
RECURSIVE Token(_, _)
Token(r, d) ==
    IF AtEnd(r, d) THEN Ans(NoTok, EOF, d)
    ELSE LET l == PeekLex(r, d)
             next == [d EXCEPT !.pos = d.pos + 1]
         IN CASE l.lx = "{" ->
                   IF tokenValueAllowed(d.st)
                   THEN Ans(Delim("{"), Nil, [next EXCEPT !.st = "tokenObjectStart"])
                   ELSE Ans(NoTok, tokenError(d.st, FirstChar(l)), d)
              [] l.lx = "}" ->
                   IF d.st \in {"tokenObjectStart", "tokenObjectComma"}
                   THEN Ans(Delim("}"), Nil,
                            [next EXCEPT !.st = tokenValueEnd("tokenTopValue")])
                   ELSE Ans(NoTok, tokenError(d.st, FirstChar(l)), d)
              [] l.lx = ":" ->
                   IF d.st = "tokenObjectColon"
                   THEN Token(r, [next EXCEPT !.st = "tokenObjectValue"])
                   ELSE Ans(NoTok, tokenError(d.st, FirstChar(l)), d)
              [] l.lx = "," ->
                   IF d.st = "tokenObjectComma"
                   THEN Token(r, [next EXCEPT !.st = "tokenObjectKey"])
                   ELSE Ans(NoTok, tokenError(d.st, FirstChar(l)), d)
              [] l.lx = "val" /\ l.v.k = "string"
                     /\ d.st \in {"tokenObjectStart", "tokenObjectKey"} ->
                   Ans(Tok("string", l.v.s), Nil, [next EXCEPT !.st = "tokenObjectColon"])
              [] l.lx = "val" /\ tokenValueAllowed(d.st) ->
                   IF l.v.k \in {"array", "object"}
                   THEN Ans(ValueToken(l.v), Nil,
                            [next EXCEPT !.st = IF l.v.k = "array" THEN "tokenArrayStart"
                                                ELSE "tokenObjectStart"])
                   ELSE Ans(ValueToken(l.v), Nil, [next EXCEPT !.st = tokenValueEnd(d.st)])
              [] l.lx = "bad" /\ tokenValueAllowed(d.st) ->
                   Ans(NoTok, SyntaxError(FirstChar(l), "looking for beginning of value"), d)
              [] OTHER -> Ans(NoTok, tokenError(d.st, FirstChar(l)), d)

\* What encoding/json stores in an interface{} for a JSON value.
Generic(jv) ==
    CASE jv.k = "string" -> StrV(jv.s)
      [] jv.k = "number" -> F64(jv.n, jv.frac)
      [] jv.k = "bool"   -> BoolV(jv.s)
      [] jv.k = "null"   -> Invalid
      [] jv.k = "array"  -> SliceV(jv.s)
      [] jv.k = "object" -> MapV(ObjEntries(jv.s))

\* Decoder.Decode(&v) with v an interface{}: tokenPrepareForDecode takes
\* the colon after a key, then one whole value is read and stored.
\* The answer's tok is unused; val is the Go value now in v.
DecAns(val, err, d) == [val |-> val, err |-> err, d |-> d]
Decode(r, d) ==
    LET colon == d.st = "tokenObjectColon"
        d1 == IF colon /\ ~AtEnd(r, d) /\ PeekLex(r, d).lx = ":"
              THEN [pos |-> d.pos + 1, st |-> "tokenObjectValue"] ELSE d
    IN  IF colon /\ AtEnd(r, d) THEN DecAns(Invalid, EOF, d)
        ELSE IF colon /\ PeekLex(r, d).lx # ":" THEN DecAns(Invalid, ColonError, d)
        ELSE IF ~tokenValueAllowed(d1.st) THEN DecAns(Invalid, NotAtValueError, d1)
        ELSE IF AtEnd(r, d1) THEN DecAns(Invalid, EOF, d1)
        ELSE IF PeekLex(r, d1).lx # "val"
             THEN DecAns(Invalid, SyntaxError(FirstChar(PeekLex(r, d1)),
                                         "looking for beginning of value"), d1)
        ELSE DecAns(Generic(PeekLex(r, d1).v), Nil,
                    [pos |-> d1.pos + 1, st |-> tokenValueEnd(d1.st)])

(***************************************************************************)
(* Go types and the targets handed to UnmarshalWith.                       *)
(* A struct field is [name, tag, type, exported]; tag is the json tag as   *)
(* its comma-separated segments (strings.Split), <<>> when there is none.  *)
(***************************************************************************)
MapTypes == {"map[string]interface{}", "map[string]json.RawMessage",
             "map[string]int", "map[int]json.RawMessage"}
IsMapType(ty) == ty \in MapTypes
\* reflect.Type.Key and reflect.Type.Elem of a map type
KeyType(ty)  == IF ty = "map[int]json.RawMessage" THEN "int" ELSE "string"
ElemType(ty) ==
    CASE ty = "map[string]interface{}" -> "interface{}"
      [] ty = "map[string]int" -> "int"
      [] OTHER -> "json.RawMessage"

\* the zero value of a type
Zero(ty) ==
    CASE ty = "string" -> StrV("")
      [] ty = "int" -> IntV(0)
      [] ty = "bool" -> BoolV("false")
      [] ty = "time.Time" -> TimeV("0001-01-01T00:00:00Z")
      [] ty = "json.RawMessage" -> NilSlice
      [] OTHER -> NilMap

Field(name, tag, ty) ==
    [name |-> name, tag |-> tag, type |-> ty, exported |-> TRUE]
Unexported(name, tag, ty) ==
    [name |-> name, tag |-> tag, type |-> ty, exported |-> FALSE]
Struct(name, fields) ==
    [name |-> name, ptr |-> TRUE, kind |-> "struct", fields |-> fields]
NonPtr(t) == [t EXCEPT !.ptr = FALSE]

\* the types of unmarshal_test.go
foo1 == Struct("foo1", <<Field("Foo", <<"foo">>, "string"),
                         Field("Bar", <<"bar">>, "int"),
                         Field("Rest", <<"-">>, "map[string]interface{}")>>)
foo2 == Struct("foo2", <<Field("Foo", <<"foo">>, "string"),
                         Field("Bar", <<"bar">>, "int"),
                         Field("Baz", <<"baz">>, "time.Time")>>)
foo3 == Struct("foo3", <<Field("Foo", <<"foo">>, "string"),
                         Field("Bar", <<"bar">>, "int"),
                         Field("Rest", <<"-">>, "map[string]json.RawMessage")>>)
foo4 == Struct("foo4", <<Field("Foo", <<"foo">>, "string"),
                         Field("Bar", <<"bar">>, "int"),
                         Field("Rest", <<"-">>, "map[string]int")>>)
foo5 == Struct("foo5", <<Field("Foo", <<"foo">>, "string"),
                         Field("Direct", <<>>, "bool"),
                         Field("Rest", <<"-">>, "map[string]interface{}")>>)
sliceItem   == [name |-> "[]foo1", ptr |-> TRUE, kind |-> "slice", fields |-> <<>>]
noSpill     == Struct("noSpill", <<>>)
badSpill    == Struct("badSpill", <<Field("Rest", <<>>, "string")>>)
badSpillKey == Struct("badSpillKey", <<Field("Rest", <<>>, "map[int]json.RawMessage")>>)
intSpillValue == Struct("intSpillValue", <<Field("Rest", <<>>, "map[string]int")>>)
\* further shapes: an untagged spillover field, unexported fields, tags with
\* options, a tag "-," and two fields with one wire name
openSpill == Struct("openSpill", <<Field("Foo", <<"foo">>, "string"),
                                   Field("Rest", <<>>, "map[string]interface{}")>>)
hidSpill  == Struct("hidSpill", <<Field("Foo", <<"foo">>, "string"),
                                  Unexported("rest", <<>>, "map[string]interface{}")>>)
hidBad    == Struct("hidBad", <<Unexported("rest", <<>>, "string")>>)
hidBadKey == Struct("hidBadKey", <<Unexported("rest", <<>>, "map[int]json.RawMessage")>>)
tagged    == Struct("tagged", <<Field("Foo", <<"foo", "omitempty">>, "string"),
                                Field("Dash", <<"-", "">>, "string"),
                                Field("D1", <<"d">>, "string"),
                                Field("D2", <<"d">>, "string"),
                                Field("Rest", <<"-">>, "map[string]interface{}")>>)

Targets == {foo1, foo2, foo3, foo4, foo5, NonPtr(foo1), sliceItem, NonPtr(sliceItem),
            noSpill, badSpill, badSpillKey, intSpillValue, openSpill,
            hidSpill, hidBad, hidBadKey, tagged}
SpillNames == {"Rest", "rest"}

\* reflect.Value.FieldByName: the index of the field of that name, 0 if none
FieldByName(t, name) ==
    IF \E i \in 1..Len(t.fields) : t.fields[i].name = name
    THEN CHOOSE i \in 1..Len(t.fields) : t.fields[i].name = name
    ELSE 0

\* Validate with the CanSet check moved ahead of the checks of the map type
ValidateSettableFirst(t, name) ==
    LET i == FieldByName(t, name) IN
    IF ~t.ptr THEN ErrNotGivenMutable
    ELSE IF t.kind # "struct" THEN ErrNotStructHolder
    ELSE IF i = 0 THEN ErrMissingSpilloverField
    ELSE IF ~t.fields[i].exported THEN ErrUnsetableSpilloverField
    ELSE IF ~IsMapType(t.fields[i].type) THEN ErrSpillNotRightMap
    ELSE IF KeyType(t.fields[i].type) # "string" THEN ErrSpillNotRightMap
    ELSE Nil

\* The checks at the head of UnmarshalWith, in their order; Nil if all pass.
Validate(t, name) ==
    LET i == FieldByName(t, name) IN
    IF ~t.ptr THEN ErrNotGivenMutable
    ELSE IF t.kind # "struct" THEN ErrNotStructHolder
    ELSE IF i = 0 THEN ErrMissingSpilloverField
    ELSE IF ~IsMapType(t.fields[i].type) THEN ErrSpillNotRightMap
    ELSE IF KeyType(t.fields[i].type) # "string" THEN ErrSpillNotRightMap
    ELSE IF ~t.fields[i].exported THEN ErrUnsetableSpilloverField
    ELSE Nil

\* The name under which field f is entered in fieldsLookup; Excluded if it
\* is not entered.
Excluded == [has |-> FALSE, name |-> ""]
Wire(n) == [has |-> TRUE, name |-> n]
JsonName(f) ==
    IF f.tag # <<>>
    THEN IF f.tag[1] # "-" THEN Wire(f.tag[1]) ELSE Excluded
    ELSE Wire(f.name)

\* fieldsLookup after the loop over the first n fields: a later field
\* overwrites an earlier one of the same name.
RECURSIVE FieldsLookup(_, _)
FieldsLookup(t, n) ==
    IF n = 0 THEN [k \in {} |-> 0]
    ELSE LET prev == FieldsLookup(t, n - 1)
             w == JsonName(t.fields[n])
         IN IF w.has
            THEN [k \in DOMAIN prev \cup {w.name} |-> IF k = w.name THEN n ELSE prev[k]]
            ELSE prev

\* RouteOf with encoding/json's case-insensitive fallback
Fold(k) == IF k = "Foo" THEN "foo" ELSE k
RouteOfFolded(t, k) ==
    LET look == FieldsLookup(t, Len(t.fields))
    IN IF k \in DOMAIN look THEN look[k]
       ELSE IF Fold(k) \in DOMAIN look THEN look[Fold(k)] ELSE 0

\* where UnmarshalWith sends a key: the index of the matched field, 0 for
\* the spillover map
RouteOf(t, k) ==
    LET look == FieldsLookup(t, Len(t.fields))
    IN IF k \in DOMAIN look THEN look[k] ELSE 0

(***************************************************************************)
(* reflect.Value.Convert, for the values an interface{} can hold after     *)
(* Decode: [ok, val]; ok = FALSE is a panic.                               *)
(***************************************************************************)
Conv(ok, val) == [ok |-> ok, val |-> val]
Convert(vv, ty) ==
    CASE vv.t = "invalid" -> Conv(FALSE, Invalid)
      [] ty = "interface{}" -> Conv(TRUE, vv)
      [] ty = "string" /\ vv.t = "string" -> Conv(TRUE, vv)
      [] ty = "int" /\ vv.t = "float64" -> Conv(TRUE, IntV(vv.n))  \* truncates
      [] ty = "bool" /\ vv.t = "bool" -> Conv(TRUE, vv)
      [] ty = "json.RawMessage" /\ vv.t = "string" -> Conv(TRUE, BytesV(vv.s))
      [] ty = "map[string]interface{}" /\ vv.t = "map" -> Conv(TRUE, vv)
      [] OTHER -> Conv(FALSE, Invalid)

\* reflect.Value.SetMapIndex on a non-nil map
SetMapIndex(mv, k, val) ==
    MapV({e \in mv.m : e.key # k} \cup {Entry(k, val)})

(***************************************************************************)
(* The inputs                                                              *)
(***************************************************************************)
Pairs == {<<"foo", JStr("alpha")>>, <<"foo", JNum(42)>>, <<"foo", JNull>>,
          <<"bar", JNum(42)>>, <<"bar", JNumHalf(3)>>,
          <<"Foo", JStr("alpha")>>, <<"baz", JStr(TimeText)>>,
          <<"num", JNum(42)>>, <<"arr", JArr(ArrText)>>,
          <<"Rest", JObj(ObjText)>>, <<"-", JStr("alpha")>>,
          <<"d", JStr("alpha")>>, <<"nul", JNull>>, <<"Direct", JTrue>>}
Objects == UNION {[1..n -> Pairs] : n \in 0..MaxPairs}

RECURSIVE Members(_, _)
Members(ps, n) ==
    IF n = 0 THEN <<>>
    ELSE Members(ps, n - 1) \o (IF n > 1 THEN <<COMMA>> ELSE <<>>)
         \o <<Val(JStr(ps[n][1])), COLON, Val(ps[n][2])>>
Render(ps) == <<LB>> \o Members(ps, Len(ps)) \o <<RB>>

WellFormed == {Render(ps) : ps \in Objects}
Truncated  == UNION {{SubSeq(w, 1, n) : n \in 0..(Len(w) - 1)} : w \in WellFormed}
Malformed  ==
    {<<Val(JArr("[]"))>>, <<BAD>>, <<Val(JNum(42))>>, <<Val(JStr("alpha"))>>,
     <<LB, Val(JNum(42)), COLON, Val(JStr("foo")), RB>>,
     <<LB, Val(JStr("foo")), COMMA, Val(JNum(42)), RB>>,
     <<LB, Val(JStr("foo")), COLON, BAD, RB>>,
     <<LB, Val(JStr("foo")), COLON, Val(JStr("alpha")), COMMA, RB>>,
     <<LB, Val(JStr("foo")), COLON, Val(JStr("alpha")), Val(JStr("bar")), COLON,
       Val(JNum(42)), RB>>,
     <<LB, COMMA, RB>>, <<LB, BAD>>, <<RB>>}
RawInputs == WellFormed \cup Truncated \cup Malformed

\* what a caller may have put in a field before the call
Old(ty) ==
    CASE ty = "string" -> StrV("old")
      [] ty = "int" -> IntV(7)
      [] ty = "bool" -> BoolV("true")
      [] ty = "time.Time" -> TimeV("2001-02-03T04:05:06Z")
      [] ty = "map[string]interface{}" -> MapV({Entry("kept", StrV("old"))})
      [] ty = "map[string]int" -> MapV({Entry("kept", IntV(7))})
      [] ty = "map[string]json.RawMessage" -> MapV({Entry("kept", BytesV("7"))})
      [] OTHER -> Zero(ty)
Fresh(t)     == [i \in 1..Len(t.fields) |-> Zero(t.fields[i].type)]
Populated(t) == [i \in 1..Len(t.fields) |-> Old(t.fields[i].type)]

\* swallowRuneToken answering failExpect for an error of the decoder too
swallowRuneTokenMasking(r, d, expect, failExpect) ==
    LET a == Token(r, d)
    IN IF a.err # Nil \/ a.tok # Delim(expect)
       THEN [err |-> failExpect, d |-> a.d, out |-> <<>>, src |-> a.err]
       ELSE [err |-> Nil, d |-> a.d, out |-> <<>>, src |-> Nil]

(***************************************************************************)
(* swallowRuneToken: [err, d, out, src] - the error returned, the decoder  *)
(* afterwards, what was printed, and the decoder's own error.              *)
(***************************************************************************)
QuoteTok(tok) ==
    CASE tok.kind \in {"delim", "string"} -> "\"" \o tok.s \o "\""
      [] tok.kind = "nil" -> "%!q(<nil>)"
      [] OTHER -> "%!q(" \o tok.kind \o "=" \o tok.s \o ")"
swallowRuneToken(r, d, expect, failExpect) ==
    LET a == Token(r, d)
    IN IF a.err # Nil
       THEN [err |-> a.err, d |-> a.d, out |-> <<>>, src |-> a.err]
       ELSE IF a.tok # Delim(expect)
       THEN [err |-> failExpect, d |-> a.d,
             out |-> <<"Expected '" \o expect \o "' got " \o QuoteTok(a.tok)>>,
             src |-> Nil]
       ELSE [err |-> Nil, d |-> a.d, out |-> <<>>, src |-> Nil]

(***************************************************************************)
(* UnmarshalWith, step by step                                             *)
(***************************************************************************)
Init ==
    /\ target \in Targets
    /\ spilloverName \in SpillNames
    /\ raw \in RawInputs
    /\ vals \in {Fresh(target), Populated(target)}
    /\ vals0 = vals
    /\ pc = "start"
    /\ dec = NewDecoder
    /\ key = ""
    /\ v = Invalid
    /\ ret = Pending
    /\ stdout = <<>>
    /\ srcErr = Nil
    /\ route = <<>>

SpillIndex == FieldByName(target, spilloverName)

\* CheckTarget with the decoder opened before the target is checked
CheckTargetAfterOpen ==
    /\ pc = "start"
    /\ LET e == Validate(target, spilloverName)
           a == swallowRuneToken(raw, dec, "{", ErrNotGivenStruct)
       IN /\ dec' = a.d
          /\ ret' = IF a.err # Nil THEN a.err ELSE IF e = Nil THEN ret ELSE e
          /\ pc' = IF a.err = Nil /\ e = Nil THEN "more" ELSE "done"
          /\ srcErr' = IF a.src # Nil THEN a.src ELSE srcErr
          /\ stdout' = stdout \o a.out
    /\ UNCHANGED <<target, spilloverName, raw, vals, vals0, key, v, route>>

\* lines 63-111: the checks on the target, then the field lookup
CheckTarget ==
    /\ pc = "start"
    /\ LET e == Validate(target, spilloverName)
       IN /\ ret' = IF e = Nil THEN ret ELSE e
          /\ pc' = IF e = Nil THEN "open" ELSE "done"
    /\ UNCHANGED <<target, spilloverName, raw, vals, vals0, dec, key, v,
                   stdout, srcErr, route>>

\* lines 113-116: the opening delimiter
OpenObject ==
    /\ pc = "open"
    /\ LET a == swallowRuneToken(raw, dec, "{", ErrNotGivenStruct)
       IN /\ dec' = a.d
          /\ stdout' = stdout \o a.out
          /\ srcErr' = IF a.src # Nil THEN a.src ELSE srcErr
          /\ ret' = IF a.err # Nil THEN a.err ELSE ret
          /\ pc' = IF a.err # Nil THEN "done" ELSE "more"
    /\ UNCHANGED <<target, spilloverName, raw, vals, vals0, key, v, route>>

\* line 117: the loop condition
TestMore ==
    /\ pc = "more"
    /\ pc' = IF More(raw, dec) THEN "key" ELSE "close"
    /\ UNCHANGED <<target, spilloverName, raw, vals, vals0, dec, key, v, ret,
                   stdout, srcErr, route>>

\* lines 118-125: the key
ReadKey ==
    /\ pc = "key"
    /\ LET a == Token(raw, dec)
       IN /\ dec' = a.d
          /\ srcErr' = IF a.err # Nil THEN a.err ELSE srcErr
          /\ IF a.err # Nil
             THEN ret' = a.err /\ pc' = "done" /\ key' = key
             ELSE IF a.tok.kind # "string"
             THEN ret' = ErrGivenNonStringKey /\ pc' = "done" /\ key' = key
             ELSE ret' = ret /\ pc' = "value" /\ key' = a.tok.s
    /\ UNCHANGED <<target, spilloverName, raw, vals, vals0, v, stdout, route>>

\* DecodeValue undoing the assignments of the call when the decoder fails
DecodeValueRollback ==
    /\ pc = "value"
    /\ LET a == Decode(raw, dec)
       IN /\ dec' = a.d
          /\ srcErr' = IF a.err # Nil THEN a.err ELSE srcErr
          /\ v' = IF a.err # Nil THEN v ELSE a.val
          /\ ret' = IF a.err # Nil THEN a.err ELSE ret
          /\ pc' = IF a.err # Nil THEN "done" ELSE "assign"
          /\ vals' = IF a.err # Nil THEN vals0 ELSE vals
    /\ UNCHANGED <<target, spilloverName, raw, vals0, key, stdout, route>>

\* lines 129-134: the value, decoded into an interface{}
DecodeValue ==
    /\ pc = "value"
    /\ LET a == Decode(raw, dec)
       IN /\ dec' = a.d
          /\ srcErr' = IF a.err # Nil THEN a.err ELSE srcErr
          /\ v' = IF a.err # Nil THEN v ELSE a.val
          /\ ret' = IF a.err # Nil THEN a.err ELSE ret
          /\ pc' = IF a.err # Nil THEN "done" ELSE "assign"
    /\ UNCHANGED <<target, spilloverName, raw, vals, vals0, key, stdout, route>>

\* lines 136-144: the value goes to its field or into the spillover map.
\* A failed Convert, or Set on a field that cannot be set, is a panic; in
\* the spillover branch the map is made before Convert is called.
AssignTo(fs, i, val) == [fs EXCEPT ![i] = val]
Assign ==
    /\ pc = "assign"
    /\ LET to == RouteOf(target, key)
           ty == IF to # 0 THEN target.fields[to].type
                 ELSE ElemType(target.fields[SpillIndex].type)
           c  == Convert(v, ty)
           made == IF vals[SpillIndex].nil
                   THEN AssignTo(vals, SpillIndex, MapV({})) ELSE vals
       IN /\ route' = Append(route, [key |-> key, to |-> to])
          /\ IF to # 0
             THEN IF c.ok /\ target.fields[to].exported
                  THEN vals' = AssignTo(vals, to, c.val) /\ pc' = "more" /\ ret' = ret
                  ELSE vals' = vals /\ pc' = "done"
                       /\ ret' = Panic(IF c.ok THEN "reflect.Value.Set"
                                       ELSE "reflect.Value.Convert")
             ELSE IF c.ok
                  THEN vals' = AssignTo(made, SpillIndex,
                                        SetMapIndex(made[SpillIndex], key, c.val))
                       /\ pc' = "more" /\ ret' = ret
                  ELSE vals' = made /\ pc' = "done"
                       /\ ret' = Panic("reflect.Value.Convert")
    /\ UNCHANGED <<target, spilloverName, raw, vals0, dec, key, v, stdout, srcErr>>

\* lines 146-150: the closing delimiter, then success
CloseObject ==
    /\ pc = "close"
    /\ LET a == swallowRuneToken(raw, dec, "}", ErrMalformedJSON)
       IN /\ dec' = a.d
          /\ stdout' = stdout \o a.out
          /\ srcErr' = IF a.src # Nil THEN a.src ELSE srcErr
          /\ ret' = a.err
          /\ pc' = "done"
    /\ UNCHANGED <<target, spilloverName, raw, vals, vals0, key, v, route>>

Next ==
    \/ CheckTarget
    \/ OpenObject
    \/ TestMore
    \/ ReadKey
    \/ DecodeValue
    \/ Assign
    \/ CloseObject

Spec == Init /\ [][Next]_vars

(***************************************************************************)
(* Vocabulary of the properties                                            *)
(***************************************************************************)
Done == pc = "done"
ValidTarget == Validate(target, spilloverName) = Nil
IsObject == raw \in WellFormed

\* the pairs of a well-formed object, by their places in the text
NPairs(r)   == (Len(r) - 1) \div 4
KeyAt(r, i) == r[4 * i - 2].v.s
ValAt(r, i) == r[4 * i].v
KeysOf(r)   == {KeyAt(r, i) : i \in 1..NPairs(r)}

SpillType == target.fields[SpillIndex].type
SpillMap  == vals[SpillIndex]
MapKeys(mv) == {e.key : e \in mv.m}
MapGet(mv, k) == (CHOOSE e \in mv.m : e.key = k).val
OtherFields == (1..Len(target.fields)) \ {SpillIndex}

\* a key of the input is matched (by a declared field other than the
\* spillover field), unmatched, or names the spillover field itself
MatchedKey(k)   == RouteOf(target, k) \in OtherFields
UnmatchedKey(k) == RouteOf(target, k) = 0
UnmatchedKeys   == {k \in KeysOf(raw) : UnmatchedKey(k)}
NoSpillKey      == \A k \in KeysOf(raw) : RouteOf(target, k) # SpillIndex
\* field i is the one its wire name leads to
Reachable(i) ==
    /\ JsonName(target.fields[i]).has
    /\ RouteOf(target, JsonName(target.fields[i]).name) = i

\* the text of a JSON value
Text(jv) ==
    CASE jv.k = "string" -> "\"" \o jv.s \o "\""
      [] jv.k = "number" -> NumText(jv)
      [] OTHER -> jv.s

\* What encoding/json's own Unmarshal leaves in a destination of type ty
\* that held old, for the JSON value jv: [ok, val]; ok = FALSE is an
\* UnmarshalTypeError (or the error of the type's UnmarshalJSON).
StdUnmarshal(jv, ty, old) ==
    CASE ty = "json.RawMessage" -> Conv(TRUE, BytesV(Text(jv)))
      [] ty = "interface{}" -> Conv(TRUE, Generic(jv))
      [] jv.k = "null" -> Conv(TRUE, IF IsMapType(ty) THEN NilMap ELSE old)
      [] ty = "string" /\ jv.k = "string" -> Conv(TRUE, StrV(jv.s))
      [] ty = "int" /\ jv.k = "number" /\ ~jv.frac -> Conv(TRUE, IntV(jv.n))
      [] ty = "bool" /\ jv.k = "bool" -> Conv(TRUE, BoolV(jv.s))
      [] ty = "time.Time" /\ jv = JStr(TimeText) -> Conv(TRUE, TimeV(jv.s))
      [] ty = "map[string]interface{}" /\ jv.k = "object" ->
             Conv(TRUE, MapV({e \in old.m : \A x \in ObjEntries(jv.s) : x.key # e.key}
                             \cup ObjEntries(jv.s)))
      [] OTHER -> Conv(FALSE, old)

\* strings.ToLower, on the keys and names of the inputs
Lower(s) ==
    CASE s = "Foo" -> "foo"
      [] s = "Rest" -> "rest"
      [] s = "Direct" -> "direct"
      [] OTHER -> s

\* json.Unmarshal of the first n pairs of r into a struct that declares one
\* field alone, of type ty and with the name k, which held old: the field
\* takes, in order, the value of every key equal to k, letter case aside
RECURSIVE StdKey(_, _, _, _, _)
StdKey(r, n, k, ty, old) ==
    IF n = 0 THEN Conv(TRUE, old)
    ELSE LET before == StdKey(r, n - 1, k, ty, old)
         IN IF Lower(KeyAt(r, n)) # Lower(k) \/ ~before.ok THEN before
            ELSE StdUnmarshal(ValAt(r, n), ty, before.val)

\* the name encoding/json gives a field: none to an unexported field and to
\* the tag "-", else the first segment of the tag, else the field's name
StdName(f) ==
    IF ~f.exported \/ f.tag = <<"-">> THEN Excluded
    ELSE IF f.tag # <<>> /\ f.tag[1] # "" THEN Wire(f.tag[1])
    ELSE Wire(f.name)

\* the standard decoder on the entry k of a map with elements of type ty:
\* every occurrence of the key is decoded into a fresh zero element, so the
\* entry holds what the last occurrence leaves in a zero value
RECURSIVE StdMapKey(_, _, _, _)
StdMapKey(r, n, k, ty) ==
    IF n = 0 THEN Conv(TRUE, Zero(ty))
    ELSE LET before == StdMapKey(r, n - 1, k, ty)
         IN IF KeyAt(r, n) # k \/ ~before.ok THEN before
            ELSE StdUnmarshal(ValAt(r, n), ty, Zero(ty))

\* the JSON value a text spells, among the values of the inputs
Spells(s) == {p[2] : p \in {q \in Pairs : Text(q[2]) = s}}
\* json.Unmarshal of the bytes s into a destination of type ty
UnmarshalText(s, ty, old) ==
    IF Spells(s) = {} THEN Conv(FALSE, old)
    ELSE StdUnmarshal(CHOOSE jv \in Spells(s) : TRUE, ty, old)

\* what the standard decoder puts in an equally declared field: the result
\* of json.Unmarshal of the input into a struct that declares field i of the
\* target alone (not the target itself, where another field of the same
\* name would hide it)
StdField(i) ==
    IF StdName(target.fields[i]).has
    THEN StdKey(raw, NPairs(raw), StdName(target.fields[i]).name,
                target.fields[i].type, vals0[i])
    ELSE Conv(TRUE, vals0[i])
\* the standard decoder's result for the entry k of a map of the overflow
\* field's type
StdEntry(k) ==
    StdMapKey(raw, NPairs(raw), k, ElemType(SpillType))

\* every value of the input is one its destination type can hold
MatchedValuesFit   == \A i \in OtherFields : Reachable(i) => StdField(i).ok
UnmatchedValuesFit == \A k \in UnmatchedKeys : StdEntry(k).ok

(***************************************************************************)
(* C1. For every valid target and every well-formed object whose keys are  *)
(* all declared wire names (with values their fields can hold),            *)
(* UnmarshalWith succeeds and leaves the overflow map exactly as it was on *)
(* entry (a nil map stays nil).                                            *)
(***************************************************************************)
C1_AllMatched_SucceedsOverflowUntouched ==
    (/\ Done /\ ValidTarget /\ IsObject
     /\ \A k \in KeysOf(raw) : MatchedKey(k)
     /\ MatchedValuesFit)
        => (ret = Nil /\ SpillMap = vals0[SpillIndex])

(***************************************************************************)
(* C2. For every valid target and every well-formed object with at least   *)
(* one unmatched key (and values their destinations can hold),             *)
(* UnmarshalWith succeeds and, from an absent overflow map, the map's keys *)
(* afterwards are exactly the unmatched keys, each mapped to its value     *)
(* decoded as the map's value type.                                        *)
(***************************************************************************)
C2_Unmatched_SucceedsExactOverflow ==
    (/\ Done /\ ValidTarget /\ IsObject /\ NoSpillKey
     /\ UnmatchedKeys # {}
     /\ MatchedValuesFit /\ UnmatchedValuesFit)
        => /\ ret = Nil
           /\ vals0[SpillIndex].nil =>
                /\ ~SpillMap.nil
                /\ MapKeys(SpillMap) = UnmatchedKeys
                /\ \A k \in UnmatchedKeys : MapGet(SpillMap, k) = StdEntry(k).val

(***************************************************************************)
(* C3. After a successful UnmarshalWith every declared field whose wire    *)
(* name occurs in the input holds the value the standard decoder would put *)
(* in a field of that type, and every declared field whose wire name does  *)
(* not occur holds the value it had before the call.                       *)
(***************************************************************************)
C3_FieldsAsStandardDecoder ==
    (Done /\ ret = Nil) =>
        \A i \in OtherFields :
            IF Reachable(i) /\ JsonName(target.fields[i]).name \in KeysOf(raw)
            THEN StdField(i).ok /\ vals[i] = StdField(i).val
            ELSE vals[i] = vals0[i]

(***************************************************************************)
(* C4. With an overflow map of json.RawMessage, decoding succeeds for      *)
(* unmatched values of every JSON shape and each overflow entry holds the  *)
(* raw JSON text of its value, so that decoding the entry into a type      *)
(* gives what decoding the key into a field of that type gives.            *)
(***************************************************************************)
C4_RawMessageHoldsText ==
    (/\ Done /\ ValidTarget /\ IsObject
     /\ \A k \in KeysOf(raw) : UnmatchedKey(k)
     /\ ElemType(SpillType) = "json.RawMessage" /\ vals0[SpillIndex].nil)
        => /\ ret = Nil
           /\ \A k \in UnmatchedKeys :
                /\ k \in MapKeys(SpillMap)
                /\ MapGet(SpillMap, k) = StdEntry(k).val
                /\ \A ty \in {"string", "int", "time.Time", "interface{}"} :
                      UnmarshalText(MapGet(SpillMap, k).s, ty, Zero(ty))
                        = StdKey(raw, NPairs(raw), k, ty, Zero(ty))

(***************************************************************************)
(* C5. A value that its destination type cannot represent makes            *)
(* UnmarshalWith return a conversion error; no input ends in a panic.      *)
(***************************************************************************)
C5_MismatchIsErrorNeverPanic ==
    (Done /\ ValidTarget) =>
        /\ ret.origin # "panic"
        /\ (IsObject /\ NoSpillKey /\ ~(MatchedValuesFit /\ UnmatchedValuesFit)) =>
                (ret.origin = "encoding/json" /\ ret.name = "UnmarshalTypeError")

(***************************************************************************)
(* The checks of the target as the validation sequence lists them          *)
(***************************************************************************)
SpillField(t, name) == t.fields[FieldByName(t, name)]
HasSpill(t, name) == t.kind = "struct" /\ FieldByName(t, name) # 0
Violates(t, name, k) ==
    CASE k = 1 -> ~t.ptr
      [] k = 2 -> t.kind # "struct"
      [] k = 3 -> ~HasSpill(t, name)
      [] k = 4 -> ~(HasSpill(t, name) /\ IsMapType(SpillField(t, name).type))
      [] k = 5 -> ~(HasSpill(t, name) /\ IsMapType(SpillField(t, name).type)
                    /\ KeyType(SpillField(t, name).type) = "string")
      [] k = 6 -> ~(HasSpill(t, name) /\ SpillField(t, name).exported)
ListedError == <<ErrNotGivenMutable, ErrNotStructHolder, ErrMissingSpilloverField,
                 ErrSpillNotRightMap, ErrSpillNotRightMap, ErrUnsetableSpilloverField>>
Violations(t, name) == {k \in 1..6 : Violates(t, name, k)}
FirstViolation(t, name) ==
    IF Violations(t, name) = {} THEN Nil
    ELSE ListedError[CHOOSE k \in Violations(t, name) :
                        \A j \in Violations(t, name) : k <= j]
DeclarationErrors == {ListedError[k] : k \in 1..6}

(***************************************************************************)
(* C6. Validation of the target is fail-fast in the listed order: the call *)
(* returns the error of the earliest check the target violates, also when  *)
(* it violates several, and no declaration error when it violates none.    *)
(***************************************************************************)
C6_FirstViolationWins ==
    pc # "start" =>
        IF Violations(target, spilloverName) # {}
        THEN Done /\ ret = FirstViolation(target, spilloverName)
        ELSE ret \notin DeclarationErrors

\* a target that is neither a map nor settable has been refused as "not a map"
C6_Witness ==
    /\ Done /\ target = hidBad /\ spilloverName = "rest"
    /\ {4, 5, 6} \subseteq Violations(target, spilloverName)
    /\ ret = ErrSpillNotRightMap

(***************************************************************************)
(* C7. For a target that fails validation the call returns the declaration *)
(* error before any token of the input is read: the same error for every   *)
(* raw input, never a parse error, with the target unchanged.              *)
(***************************************************************************)
C7_DeclarationErrorBeforeInput ==
    (pc # "start" /\ ~ValidTarget) =>
        /\ Done
        /\ ret \in DeclarationErrors
        /\ ret = FirstViolation(target, spilloverName)
        /\ dec = NewDecoder
        /\ srcErr = Nil
        /\ stdout = <<>>
        /\ vals = vals0

\* a bad target was refused although the input is no JSON at all
C7_Witness ==
    /\ Done /\ target = noSpill /\ raw = <<BAD>>
    /\ ret = ErrMissingSpilloverField /\ dec.pos = 0

(***************************************************************************)
(* C8. When the first token is a valid token other than the opening brace  *)
(* the call fails with the NotGivenStruct error, whose text carries the    *)
(* expected and the actual token after the package's stable text, and no   *)
(* field or overflow entry is modified.                                    *)
(***************************************************************************)
C8_NotGivenStructCarriesTokens ==
    (Done /\ ValidTarget /\ Len(raw) > 0 /\ raw[1].lx = "val") =>
        /\ ret.name = "ErrNotGivenStruct"
        /\ ret.msg = ErrNotGivenStruct.msg \o ": expected '{' got "
                        \o QuoteTok(ValueToken(raw[1].v))
        /\ vals = vals0

(***************************************************************************)
(* C9. An error of the token source, raised at the opening delimiter, a    *)
(* key, a value or the closing delimiter, is the result of the call as it  *)
(* is, never one of the package's own errors; the input `{` gives the end  *)
(* of input error and a non-string key gives the tokenizer's syntax error. *)
(***************************************************************************)
C9_TokenErrorsBubble ==
    /\ srcErr # Nil =>
          /\ Done
          /\ ret = srcErr
          /\ ret.origin \in {"io", "encoding/json"}
    /\ (Done /\ ValidTarget /\ raw = <<LB>>) => ret = EOF
    /\ (Done /\ ValidTarget /\ Len(raw) > 1 /\ raw[1] = LB /\ raw[2] = Val(JNum(42)))
          => (ret.origin = "encoding/json" /\ ret.name = "SyntaxError")

\* the truncated input `{` has ended the call with the end of input error,
\* raised at the closing delimiter
C9_Witness ==
    /\ Done /\ ValidTarget /\ raw = <<LB>>
    /\ srcErr = EOF /\ ret = EOF /\ dec.st = "tokenObjectStart"

(***************************************************************************)
(* C10 as stated. A key goes to a declared field if and only if it equals  *)
(* the field's wire name - the first segment of the json tag, the field's  *)
(* name without a tag, none for a field tagged exactly "-" - and to the    *)
(* overflow map otherwise.                                                 *)
(***************************************************************************)
RuleWire(f) ==
    IF f.tag = <<>> THEN Wire(f.name)
    ELSE IF f.tag = <<"-">> THEN Excluded
    ELSE Wire(f.tag[1])
C10_RoutingAsStated ==
    \A n \in 1..Len(route) : \A i \in 1..Len(target.fields) :
        (route[n].to = i) <=> (RuleWire(target.fields[i]) = Wire(route[n].key))

(***************************************************************************)
(* C10, amended. A field has no wire name when the first segment of its    *)
(* tag is "-" (so also for the tag "-,"), and of several fields with one   *)
(* wire name the last declared takes the key.  No case folding: a key goes *)
(* to a field only if it is equal to that wire name, else to the overflow  *)
(* map.                                                                    *)
(***************************************************************************)
FirstSegmentWire(f) ==
    IF f.tag = <<>> THEN Wire(f.name)
    ELSE IF f.tag[1] = "-" THEN Excluded
    ELSE Wire(f.tag[1])
C10_Routing ==
    \A n \in 1..Len(route) :
        /\ route[n].to \in 0..Len(target.fields)
        /\ \A i \in 1..Len(target.fields) :
             (route[n].to = i) <=>
                /\ FirstSegmentWire(target.fields[i]) = Wire(route[n].key)
                /\ \A j \in (i + 1)..Len(target.fields) :
                      FirstSegmentWire(target.fields[j]) # Wire(route[n].key)

\* "foo" went to the field Foo, and "Foo" - the field's Go name, the wire
\* name in another case - went to the overflow map
C10_Witness ==
    /\ Done /\ target = foo1 /\ ret = Nil
    /\ route = <<[key |-> "foo", to |-> 1], [key |-> "Foo", to |-> 0]>>
    /\ MapKeys(SpillMap) \cap {"Foo", "foo"} = {"Foo"}

(***************************************************************************)
(* C11. Decoding is additive on the overflow map: after a successful call  *)
(* every entry the map held before the call, whose key is not an unmatched *)
(* key of the input, is still there with its value, and a map that was not *)
(* nil is not nil afterwards.                                              *)
(***************************************************************************)
C11_OverflowAdditive ==
    (Done /\ ret = Nil /\ ValidTarget) =>
        /\ ~vals0[SpillIndex].nil => ~SpillMap.nil
        /\ \A e \in vals0[SpillIndex].m :
              e.key \notin UnmatchedKeys => e \in SpillMap.m

\* the keys the call has put into the overflow map so far
InsertedKeys == {route[n].key : n \in {j \in 1..Len(route) : route[j].to = 0}}

(***************************************************************************)
(* C12. For every valid target, also one whose overflow field has a wire   *)
(* name of its own, the overflow field changes only by the lazy creation   *)
(* of an empty map and by the insertion of entries for unmatched keys: no  *)
(* key makes the call assign the field as a matched field or replace the   *)
(* map by a decoded value.                                                 *)
(***************************************************************************)
C12_OverflowOnlyInserted ==
    ValidTarget =>
        \/ SpillMap = vals0[SpillIndex]
        \/ /\ ~SpillMap.nil
           /\ MapKeys(SpillMap) \subseteq MapKeys(vals0[SpillIndex]) \cup InsertedKeys
           /\ \A e \in vals0[SpillIndex].m :
                 e.key \notin InsertedKeys => e \in SpillMap.m

\* the call has returned an error (it has not panicked)
ErrorReturned == Done /\ ret.origin \in {"io", "encoding/json", "swallowjson"}

\* the i-th key/value pair stands whole in the text r: its separator, a
\* string key, the colon and a value
WholePair(r, i) ==
    /\ 4 * i <= Len(r)
    /\ r[4 * i - 3] = (IF i = 1 THEN LB ELSE COMMA)
    /\ r[4 * i - 2].lx = "val" /\ r[4 * i - 2].v.k = "string"
    /\ r[4 * i - 1] = COLON
    /\ r[4 * i].lx = "val"
\* the pairs before the first one that does not stand whole
LeadingPairs(r) ==
    LET broken == {i \in 1..(Len(r) \div 4 + 1) : ~WholePair(r, i)}
    IN (CHOOSE i \in broken : \A j \in broken : i <= j) - 1

\* what the assignment of one pair leaves in the fields fs: a matched field
\* set, or the entry inserted into the overflow map, made if it was nil
Landed(fs, k, jv) ==
    LET to == RouteOf(target, k)
    IN IF to # 0
       THEN [fs EXCEPT ![to] = Convert(Generic(jv), target.fields[to].type).val]
       ELSE LET m == IF fs[SpillIndex].nil THEN MapV({}) ELSE fs[SpillIndex]
            IN [fs EXCEPT ![SpillIndex] =
                    SetMapIndex(m, k, Convert(Generic(jv), ElemType(SpillType)).val)]
\* the fields after the first n pairs of r have landed, in input order
RECURSIVE LandedPairs(_, _, _)
LandedPairs(fs, r, n) ==
    IF n = 0 THEN fs
    ELSE Landed(LandedPairs(fs, r, n - 1), KeyAt(r, n), ValAt(r, n))

(***************************************************************************)
(* C13. Keys are applied in input order and an error ends the walk at once *)
(* with no rollback: when the call returns an error raised in the k-th     *)
(* pair (the first pair that does not stand whole in the input) or at the  *)
(* closing delimiter, exactly the pairs 1..k-1 have been assigned, in      *)
(* their order, the target holds what these assignments leave, and nothing *)
(* of pair k or of a later pair has been applied.                          *)
(***************************************************************************)
C13_PrefixAppliedOnError ==
    (ErrorReturned /\ ValidTarget) =>
        /\ Len(route) = LeadingPairs(raw)
        /\ \A i \in 1..Len(route) : route[i].key = KeyAt(raw, i)
        /\ vals = LandedPairs(vals0, raw, LeadingPairs(raw))

\* an input cut after two whole pairs: the first set a field, the second
\* made the overflow map and went into it, then the closing delimiter failed
C13_Witness ==
    /\ ErrorReturned /\ ValidTarget
    /\ ret = EOF
    /\ Len(route) = 2 /\ route[1].to \in OtherFields /\ route[2].to = 0
    /\ vals[route[1].to] # vals0[route[1].to]
    /\ vals0[SpillIndex].nil
    /\ route[2].key \in MapKeys(SpillMap)

====
